---- MODULE Spec2Model ----
(***************************************************************************)
(* Model of backend/app.py: an in-memory calendar store behind four HTTP   *)
(* handlers (list, create, update, delete) and the Event time model that   *)
(* the handlers use to validate intervals and to detect conflicts.         *)
(*                                                                         *)
(* Time is discretised.  A raw timestamp string is a wall-clock reading    *)
(* (an integer) followed by a suffix: "" (no offset), "Z", or "+02:00"     *)
(* (an explicit offset of two units); "garbage" stands for a string that   *)
(* datetime.fromisoformat rejects.  Known zones are "UTC" and "DST", a     *)
(* zone whose clocks jump forward by two units inside the window, so that  *)
(* it has wall-clock readings that do not exist (the gap).                 *)
(***************************************************************************)
EXTENDS Integers, Sequences, FiniteSets, TLC

VARIABLES events_db, nextId, resp, req, pc, local

vars == <<events_db, nextId, resp, req, pc, local>>

(* ---------------- bounds of the model ---------------- *)
MaxWall == 3
MaxIds == 2
MaxReqIds == 1

Walls == 0..MaxWall
Garbage == [wall |-> 0, sfx |-> "garbage"]

(* ---------------- datetime / zoneinfo ---------------- *)

(* tzinfo objects.  ZoneInfo(key) is cached, so two lookups of one key     *)
(* give the same object; fromisoformat gives timezone.utc for +00:00 and   *)
(* a new timezone object for any other offset.                             *)
ZoneTz(key) == [kind |-> "zone", key |-> key, off |-> 0]
FixedTz(off) == [kind |-> "fixed", key |-> "", off |-> off]
NoTz == [kind |-> "none", key |-> "", off |-> 0]

(* str.replace("Z", "+00:00") on the raw timestamp. *)
ReplaceZ(raw) == IF raw.sfx = "Z" THEN [raw EXCEPT !.sfx = "+00:00"] ELSE raw

(* datetime.fromisoformat: ValueError on a string that is no date-time,    *)
(* a naive datetime without offset, an aware one with offset.              *)
fromisoformat(s) ==
    CASE s.sfx = "garbage" -> [ok |-> FALSE, err |-> "ValueError", wall |-> 0, tzinfo |-> NoTz]
      [] s.sfx = ""        -> [ok |-> TRUE, err |-> "", wall |-> s.wall, tzinfo |-> NoTz]
      [] s.sfx = "+00:00"  -> [ok |-> TRUE, err |-> "", wall |-> s.wall, tzinfo |-> FixedTz(0)]
      [] s.sfx = "+02:00"  -> [ok |-> TRUE, err |-> "", wall |-> s.wall, tzinfo |-> FixedTz(2)]

(* ZoneInfo(key): ZoneInfoNotFoundError, a KeyError, for an unknown key. *)
ZoneInfo(key) ==
    IF key \in {"UTC", "DST"}
    THEN [ok |-> TRUE, err |-> "", tzinfo |-> ZoneTz(key)]
    ELSE [ok |-> FALSE, err |-> "KeyError", tzinfo |-> NoTz]

(* datetime.utcoffset() with fold = 0 (fromisoformat never sets fold): a   *)
(* reading in the gap of "DST" (walls 0 and 1) takes the offset in force   *)
(* before the transition, later readings the offset after it.              *)
utcoffset(dt) ==
    CASE dt.tzinfo.kind = "fixed" -> dt.tzinfo.off
      [] dt.tzinfo.kind = "zone" /\ dt.tzinfo.key = "UTC" -> 0
      [] dt.tzinfo.kind = "zone" /\ dt.tzinfo.key = "DST" ->
            IF dt.wall < 2 THEN 0 ELSE 2
      [] OTHER -> 0

(* The absolute instant an aware datetime denotes. *)
Instant(dt) == dt.wall - utcoffset(dt)

(* Two datetimes carry the same tzinfo object. *)
SameTzinfo(a, b) ==
    \/ a.tzinfo.kind = "zone" /\ b.tzinfo.kind = "zone" /\ a.tzinfo.key = b.tzinfo.key
    \/ a.tzinfo = FixedTz(0) /\ b.tzinfo = FixedTz(0)

(* datetime.__lt__ on aware datetimes: with the same tzinfo object the     *)
(* wall-clock readings are compared and the offset is ignored, otherwise   *)
(* the readings less their offsets.                                        *)
DtLess(a, b) ==
    IF SameTzinfo(a, b) THEN a.wall < b.wall ELSE Instant(a) < Instant(b)

(* datetime.__gt__, likewise. *)
DtGreater(a, b) ==
    IF SameTzinfo(a, b) THEN a.wall > b.wall ELSE Instant(a) > Instant(b)

(* datetime.isoformat(): the reading followed by the offset. *)
isoformat(dt) == [wall |-> dt.wall, off |-> utcoffset(dt)]

(* Order of two isoformat strings as Python compares str: character by     *)
(* character, so by reading first and by the offset text after it.         *)
StrLess(x, y) == x.wall < y.wall \/ (x.wall = y.wall /\ x.off < y.off)

(* ---------------- Event ---------------- *)

(* Event._parse_datetime(value, tz) *)
parse_datetime(value, tz) ==
    LET dt == fromisoformat(ReplaceZ(value)) IN
    IF ~dt.ok THEN dt
    ELSE IF dt.tzinfo.kind = "none"
         THEN LET z == ZoneInfo(tz) IN
              IF z.ok THEN [dt EXCEPT !.tzinfo = z.tzinfo]
              ELSE [dt EXCEPT !.ok = FALSE, !.err = z.err]
         ELSE dt

(* Event.__init__: the fields, the two parsed datetimes and the range      *)
(* check; err names the exception raised, "" if none.                      *)
Event(title, startTime, endTime, timezone, description, event_id) ==
    LET st == parse_datetime(startTime, timezone)
        en == parse_datetime(endTime, timezone)
        err == IF ~st.ok THEN st.err
               ELSE IF ~en.ok THEN en.err
               ELSE IF ~DtLess(st, en) THEN "ValueError"
               ELSE ""
    IN [err |-> err, id |-> event_id, title |-> title, description |-> description,
        timezone |-> timezone, start_time |-> st, end_time |-> en]

(* Event.overlaps *)
overlaps_start(self, other) == DtLess(self.start_time, other.end_time)
overlaps(self, other) ==
    DtLess(self.start_time, other.end_time) /\ DtGreater(self.end_time, other.start_time)

(* Event.to_dict *)
to_dict(self) ==
    [id |-> self.id, title |-> self.title, description |-> self.description,
     startTime |-> isoformat(self.start_time), endTime |-> isoformat(self.end_time),
     timezone |-> self.timezone]

(* ---------------- storage and requests ---------------- *)

(* events_db is a dict: a mapping that iterates in insertion order.  It is *)
(* modelled as the sequence of its entries [id, data]; assigning to a key  *)
(* that is present replaces the value in place, assigning to a new key     *)
(* appends, del removes the entry.                                         *)
keys(db) == {db[i].id : i \in DOMAIN db}
lookup(db, id) == db[CHOOSE i \in DOMAIN db : db[i].id = id].data
setitem(db, id, data) ==
    IF id \in keys(db)
    THEN [i \in DOMAIN db |-> IF db[i].id = id THEN [id |-> id, data |-> data] ELSE db[i]]
    ELSE Append(db, [id |-> id, data |-> data])
delitem_clear(db, id) == <<>>
delitem(db, id) == SelectSeq(db, LAMBDA e : e.id # id)

(* Identifiers are uuid4 values, modelled as a counter: an identifier,     *)
(* once handed out, is never handed out again.  Ids has one identifier     *)
(* more than are ever created, for requests that name an unknown one.      *)
Ids == 1..(MaxIds + 1)

(* The JSON bodies the model sends.  A body is a function from the keys    *)
(* it has to their values; timezone and description are optional.  Both    *)
(* timestamps of a body are written in one style.                          *)
NoData == [x \in {} |-> 0]
NoTitle == [startTime |-> [wall |-> 0, sfx |-> "Z"], endTime |-> [wall |-> 1, sfx |-> "Z"]]

Times(walls, styles) ==
    {[startTime |-> [wall |-> s, sfx |-> x], endTime |-> [wall |-> e, sfx |-> x]] :
        s \in walls, e \in walls, x \in styles}
    \cup {[startTime |-> Garbage, endTime |-> [wall |-> 1, sfx |-> "Z"]],
          [startTime |-> [wall |-> 0, sfx |-> "Z"], endTime |-> Garbage]}

Optional(S, key, values) == S \cup {r @@ (key :> v) : r \in S, v \in values}

(* Bodies that vary the wall-clock timestamps and the zone. *)
TimePayloads ==
    Optional({[title |-> "a"] @@ t : t \in Times(Walls, {""})},
             "timezone", {"DST", "Mars/Phobos"})
    \cup {NoData, NoTitle}

(* Bodies over a window one unit longer, with timestamps that carry the Z  *)
(* suffix as well.                                                         *)
ReqPayloads ==
    Optional({[title |-> "a"] @@ t : t \in Times(0..(MaxWall + 1), {"", "Z"})},
             "timezone", {"DST"})
    \cup {NoData, NoTitle}

(* Bodies that vary the other fields, with Z timestamps over a window one  *)
(* unit shorter: Labels are the fields of a body next to its timestamps.   *)
Labels ==
    Optional({[title |-> "a"], [title |-> "b"]}, "description", {"d"})
    \cup {[title |-> "a", timezone |-> "Mars/Phobos"]}
FieldPayloads ==
    {l @@ t : l \in Labels, t \in Times(0..(MaxWall - 1), {"Z"})} \cup {NoData, NoTitle}

(* dict.get(key, default) *)
get(data, key, default) == IF key \in DOMAIN data THEN data[key] ELSE default

(* Event(event_id=eid, **data) for a stored record *)
StoredEvent(eid, data) ==
    Event(data.title, data.startTime, data.endTime, data.timezone, data.description, eid)

(* The event of a dict entry *)
EventOf(e) == StoredEvent(e.id, e.data)

(* Event(...) as the handlers build it from a request body *)
RequestEvent(data, event_id) ==
    Event(data.title, data.startTime, data.endTime,
          get(data, "timezone", "UTC"), get(data, "description", ""), event_id)

(* The dict a handler stores: the event's fields with the raw timestamps   *)
(* of the body.                                                            *)
Record(ev, data) ==
    [title |-> ev.title, description |-> ev.description,
     startTime |-> data.startTime, endTime |-> data.endTime, timezone |-> ev.timezone]

(* ---------------- helpers ---------------- *)

(* One pass of the loop of find_conflicts over the entries of db. *)
RECURSIVE ScanConflicts(_, _, _)
ScanConflicts(new_event, exclude_id, db) ==
    IF db = <<>> THEN <<>>
    ELSE LET eid == Head(db).id
             existing == StoredEvent(eid, Head(db).data)
             rest == ScanConflicts(new_event, exclude_id, Tail(db))
         IN IF eid = exclude_id THEN rest
            ELSE IF overlaps(new_event, existing)
                 THEN <<to_dict(existing)>> \o rest
                 ELSE rest

(* find_conflicts(new_event, exclude_id); exclude_id = 0 stands for None *)
find_conflicts_any(new_event, exclude_id, db) == ScanConflicts(new_event, 0, db)
find_conflicts(new_event, exclude_id, db) == ScanConflicts(new_event, exclude_id, db)

(* list.sort(key=lambda e: e["startTime"]): a stable sort on the text of   *)
(* the start time.                                                         *)
RECURSIVE InsertSorted(_, _)
InsertSorted(sorted, e) ==
    IF sorted = <<>> THEN <<e>>
    ELSE IF StrLess(e.startTime, Head(sorted).startTime)
         THEN <<e>> \o sorted
         ELSE <<Head(sorted)>> \o InsertSorted(Tail(sorted), e)

RECURSIVE SortByStartTime(_)
SortByStartTime(events) ==
    IF events = <<>> THEN <<>>
    ELSE InsertSorted(SortByStartTime(SubSeq(events, 1, Len(events) - 1)),
                      events[Len(events)])

(* ---------------- routes ---------------- *)

(* A response: the status, the JSON body as a sequence of event dicts, and *)
(* the operation and identifier it answers.                                *)
Response(op, status, id, body) == [op |-> op, status |-> status, id |-> id, body |-> body]

(* The body of get_events for the store db. *)
listing(db) ==
    SortByStartTime([i \in DOMAIN db |-> to_dict(StoredEvent(db[i].id, db[i].data))])

(* What a handler run to completion amounts to: the response it returns,   *)
(* the store it leaves and the number of identifiers drawn so far.         *)
Outcome(r, db, next) == [resp |-> r, db |-> db, next |-> next]

(* GET /api/events *)
get_events == Outcome(Response("list", 200, 0, listing(events_db)), events_db, nextId)

(* Status of a request whose handler raised: create_event and update_event *)
(* catch ValueError only; any other exception leaves the handler and the   *)
(* server answers 500.                                                     *)
ErrorStatus(err) == IF err = "ValueError" THEN 400 ELSE 500

HasFields(data) == {"title", "startTime", "endTime"} \subseteq DOMAIN data

(* create_event up to its decision: the response for body data against the *)
(* store db, with the event built when the request is accepted.            *)
create_check(data, db, new_id) ==
    IF data = NoData \/ ~HasFields(data)
    THEN [resp |-> Response("create", 400, 0, <<>>), event |-> NoData]
    ELSE LET new_event == RequestEvent(data, new_id)
             conflicts == find_conflicts(new_event, 0, db)
         IN IF new_event.err # ""
            THEN [resp |-> Response("create", ErrorStatus(new_event.err), 0, <<>>), event |-> NoData]
            ELSE IF conflicts # <<>>
            THEN [resp |-> Response("create", 409, 0, conflicts), event |-> new_event]
            ELSE [resp |-> Response("create", 201, new_id, <<to_dict(new_event)>>),
                  event |-> new_event]

(* The store after create_event: written once the request is accepted. *)
create_commit_early(out, data, db) ==
    IF out.resp.status \in {201, 409}
    THEN setitem(db, out.event.id, Record(out.event, data))
    ELSE db
create_commit(out, data, db) ==
    IF out.resp.status = 201
    THEN setitem(db, out.event.id, Record(out.event, data))
    ELSE db

(* POST /api/events *)
create_event_reuse(data) ==
    LET out == create_check(data, events_db, 1) IN
    Outcome(out.resp, create_commit(out, data, events_db),
            IF out.resp.status = 201 THEN nextId + 1 ELSE nextId)
create_event(data) ==
    LET out == create_check(data, events_db, nextId) IN
    Outcome(out.resp, create_commit(out, data, events_db),
            IF out.resp.status = 201 THEN nextId + 1 ELSE nextId)

(* update_event up to its decision, for an identifier found in the store. *)
update_check(event_id, data, db) ==
    IF ~HasFields(data)
    THEN [resp |-> Response("update", ErrorStatus("KeyError"), event_id, <<>>), event |-> NoData]
    ELSE LET updated_event == RequestEvent(data, event_id)
             conflicts == find_conflicts(updated_event, event_id, db)
         IN IF updated_event.err # ""
            THEN [resp |-> Response("update", ErrorStatus(updated_event.err), event_id, <<>>),
                  event |-> NoData]
            ELSE IF conflicts # <<>>
            THEN [resp |-> Response("update", 409, event_id, conflicts), event |-> updated_event]
            ELSE [resp |-> Response("update", 200, event_id, <<to_dict(updated_event)>>),
                  event |-> updated_event]

(* The store after update_event. *)
update_commit_merge(out, data, db) ==
    IF out.resp.status = 200
    THEN setitem(db, out.event.id,
                 [Record(out.event, data) EXCEPT
                    !.description = IF "description" \in DOMAIN data
                                    THEN @ ELSE lookup(db, out.event.id).description])
    ELSE db
update_commit(out, data, db) ==
    IF out.resp.status = 200
    THEN setitem(db, out.event.id, Record(out.event, data))
    ELSE db

(* PUT /api/events/<event_id> *)
update_event(event_id, data) ==
    IF event_id \notin keys(events_db)
    THEN Outcome(Response("update", 404, event_id, <<>>), events_db, nextId)
    ELSE LET out == update_check(event_id, data, events_db) IN
         Outcome(out.resp, update_commit(out, data, events_db), nextId)

(* DELETE /api/events/<event_id> *)
delete_event(event_id) ==
    IF event_id \notin keys(events_db)
    THEN Outcome(Response("delete", 404, event_id, <<>>), events_db, nextId)
    ELSE Outcome(Response("delete", 204, event_id, <<>>), delitem(events_db, event_id), nextId)

(* GET /api/health: the number of stored events *)
health == Outcome(Response("health", 200, Len(events_db), <<>>), events_db, nextId)

Workers == {1, 2}
(* What a worker thread holds while it handles a request: the request,     *)
(* the event built from it, the dict iterator of the loop it is in (the    *)
(* dict size when the iterator was made and the identifiers it has         *)
(* passed) and the list the loop has built so far.                         *)
NoLocal == [op |-> "", id |-> 0, data |-> NoData, used |-> 0, passed |-> {}, acc |-> <<>>]
Idle == [op |-> "", id |-> 0, data |-> NoData, same |-> FALSE]
Request(op, id, data) == [op |-> op, id |-> id, data |-> data, same |-> FALSE]

Init ==
    /\ events_db = <<>>
    /\ nextId = 1
    /\ resp = Response("", 0, 0, <<>>)
    /\ req = Idle
    /\ pc = [w \in Workers |-> "idle"]
    /\ local = [w \in Workers |-> NoLocal]

(* ---------------- requests handled one at a time ---------------- *)

(* A run is a sequence of requests, each handled to completion before the  *)
(* next.  The client keeps the exchange of at most one request, the last   *)
(* of the run: req then holds that request and resp the response to it,    *)
(* and the run stops.  The responses to the requests before it are read    *)
(* and dropped.  P is the set of bodies sent and cap the number of events  *)
(* ever created.  For an update, req.same tells whether the body resolved  *)
(* to the fields that were stored under the identifier when the request    *)
(* arrived.                                                                *)
(* The body data resolves to the fields stored under event_id. *)
Unchanged(event_id, data, db) ==
    HasFields(data) /\ Record(RequestEvent(data, event_id), data) = lookup(db, event_id)

Handle(out, record, r) ==
    /\ events_db' = out.db
    /\ nextId' = out.next
    /\ resp' = IF record THEN out.resp ELSE resp
    /\ req' = IF record THEN r ELSE req
    /\ UNCHANGED <<pc, local>>

ListStep(record) == Handle(get_events, record, Request("list", 0, NoData))
HealthStep(record) == Handle(health, record, Request("health", 0, NoData))
CreateStep(P, cap, record) ==
    \E data \in P :
        /\ create_event(data).next <= cap + 1
        /\ Handle(create_event(data), record, Request("create", 0, data))
UpdateStep(P, record) ==
    \E event_id \in Ids :
        \/ /\ event_id \notin keys(events_db)
           /\ Handle(update_event(event_id, NoData), record, Request("update", event_id, NoData))
        \/ /\ event_id \in keys(events_db)
           /\ \E data \in P :
                 Handle(update_event(event_id, data), record,
                        [Request("update", event_id, data) EXCEPT
                            !.same = Unchanged(event_id, data, events_db)])
DeleteStep(record) ==
    \E event_id \in Ids :
        Handle(delete_event(event_id), record, Request("delete", event_id, NoData))

Create == req = Idle /\ \E record \in BOOLEAN : CreateStep(TimePayloads, MaxIds, record)
Update == req = Idle /\ \E record \in BOOLEAN : UpdateStep(TimePayloads, record)
Delete == req = Idle /\ \E record \in BOOLEAN : DeleteStep(record)
List == req = Idle /\ \E record \in BOOLEAN : ListStep(record)
Health == req = Idle /\ \E record \in BOOLEAN : HealthStep(record)

Next == List \/ Create \/ Update \/ Delete \/ Health

Spec == Init /\ [][Next]_vars

(* The same over the longer window. *)
ReqCreate == req = Idle /\ \E record \in BOOLEAN : CreateStep(ReqPayloads, MaxReqIds, record)
ReqUpdate == req = Idle /\ \E record \in BOOLEAN : UpdateStep(ReqPayloads, record)

NextReq == List \/ ReqCreate \/ ReqUpdate \/ Delete \/ Health

SpecReq == Init /\ [][NextReq]_vars

(* The same with bodies that vary the title and the description. *)
FieldCreate == req = Idle /\ \E record \in BOOLEAN : CreateStep(FieldPayloads, MaxIds, record)
FieldUpdate == req = Idle /\ \E record \in BOOLEAN : UpdateStep(FieldPayloads, record)

NextFields == List \/ FieldCreate \/ FieldUpdate \/ Delete \/ Health

SpecFields == Init /\ [][NextFields]_vars

(* ---------------- requests handled by concurrent threads ---------------- *)

(* The development server handles each request in a thread of its own and  *)
(* no handler takes a lock, so the handlers interleave between any two     *)
(* accesses to events_db.  A step below is one access to events_db with    *)
(* the thread-local work that follows it.                                  *)

(* Bodies sent concurrently: Z timestamps over the shorter window. *)
ConcPayloads == {[title |-> "a"] @@ t : t \in Times(0..(MaxWall - 1), {"Z"})}

(* iter(events_db.items()): remembers the size of the dict. *)
NewIter(l) == [l EXCEPT !.used = Len(events_db), !.passed = {}, !.acc = <<>>]

(* The entries a dict iterator has not passed yet. *)
Remaining(l) == SelectSeq(events_db, LAMBDA e : e.id \notin l.passed)

(* An entry that is deleted leaves the part of the dict every iterator has *)
(* passed; when its key is assigned again it is appended at the end.       *)
Forget(id) == [w \in Workers |-> [local[w] EXCEPT !.passed = @ \ {id}]]

Finish(w, r) ==
    /\ resp' = r
    /\ pc' = [pc EXCEPT ![w] = "idle"]

(* create_event up to the call of find_conflicts *)
StartCreate(w) ==
    /\ pc[w] = "idle"
    /\ \E data \in ConcPayloads :
          LET new_event == RequestEvent(data, nextId) IN
          IF new_event.err # ""
          THEN /\ Finish(w, Response("create", ErrorStatus(new_event.err), 0, <<>>))
               /\ UNCHANGED <<events_db, nextId, req, local>>
          ELSE /\ nextId <= MaxIds
               /\ nextId' = nextId + 1
               /\ pc' = [pc EXCEPT ![w] = "scan"]
               /\ local' = [local EXCEPT ![w] =
                               NewIter([NoLocal EXCEPT !.op = "create", !.id = nextId,
                                                       !.data = data])]
               /\ UNCHANGED <<events_db, resp, req>>

(* update_event: the test event_id not in events_db *)
StartUpdate(w) ==
    /\ pc[w] = "idle"
    /\ \E event_id \in Ids :
          IF event_id \notin keys(events_db)
          THEN /\ Finish(w, Response("update", 404, event_id, <<>>))
               /\ UNCHANGED <<events_db, nextId, req, local>>
          ELSE /\ pc' = [pc EXCEPT ![w] = "found"]
               /\ local' = [local EXCEPT ![w] = [NoLocal EXCEPT !.op = "update", !.id = event_id]]
               /\ UNCHANGED <<events_db, nextId, resp, req>>

(* update_event from request.get_json() to the call of find_conflicts *)
BuildUpdate(w) ==
    /\ pc[w] = "found"
    /\ \E data \in ConcPayloads :
          LET updated_event == RequestEvent(data, local[w].id) IN
          IF updated_event.err # ""
          THEN /\ Finish(w, Response("update", ErrorStatus(updated_event.err), local[w].id, <<>>))
               /\ local' = [local EXCEPT ![w] = NoLocal]
               /\ UNCHANGED <<events_db, nextId, req>>
          ELSE /\ pc' = [pc EXCEPT ![w] = "scan"]
               /\ local' = [local EXCEPT ![w] = NewIter([local[w] EXCEPT !.data = data])]
               /\ UNCHANGED <<events_db, nextId, resp, req>>

(* One turn of the loop of find_conflicts, and what follows the loop when  *)
(* the iterator is exhausted.  The iterator raises RuntimeError when the   *)
(* size of the dict is not the one it remembers.                           *)
ScanStep(w) ==
    /\ pc[w] = "scan"
    /\ LET l == local[w]
           new_event == RequestEvent(l.data, l.id)
           exclude_id == IF l.op = "update" THEN l.id ELSE 0
           status == IF l.op = "update" THEN 200 ELSE 201
       IN IF Len(events_db) # l.used
          THEN /\ Finish(w, Response(l.op, ErrorStatus("RuntimeError"), l.id, <<>>))
               /\ local' = [local EXCEPT ![w] = NoLocal]
          ELSE IF Remaining(l) # <<>>
          THEN /\ local' = [local EXCEPT ![w] =
                   [l EXCEPT !.passed = @ \cup {Head(Remaining(l)).id},
                             !.acc = @ \o find_conflicts(new_event, exclude_id,
                                                         <<Head(Remaining(l))>>)]]
               /\ UNCHANGED <<resp, pc>>
          ELSE IF l.acc # <<>>
          THEN /\ Finish(w, Response(l.op, 409, l.id, l.acc))
               /\ local' = [local EXCEPT ![w] = NoLocal]
          ELSE /\ pc' = [pc EXCEPT ![w] = "commit"]
               /\ UNCHANGED <<resp, local>>
    /\ UNCHANGED <<events_db, nextId, req>>

(* The assignment events_db[id] = {...} and the success response. *)
CommitStep(w) ==
    /\ pc[w] = "commit"
    /\ LET l == local[w]
           ev == RequestEvent(l.data, l.id)
       IN /\ events_db' = setitem(events_db, l.id, Record(ev, l.data))
          /\ Finish(w, Response(l.op, IF l.op = "update" THEN 200 ELSE 201, l.id, <<to_dict(ev)>>))
    /\ local' = [local EXCEPT ![w] = NoLocal]
    /\ UNCHANGED <<nextId, req>>

(* delete_event: the test event_id not in events_db *)
StartDelete(w) ==
    /\ pc[w] = "idle"
    /\ \E event_id \in Ids :
          IF event_id \notin keys(events_db)
          THEN /\ Finish(w, Response("delete", 404, event_id, <<>>))
               /\ UNCHANGED <<events_db, nextId, req, local>>
          ELSE /\ pc' = [pc EXCEPT ![w] = "del"]
               /\ local' = [local EXCEPT ![w] = [NoLocal EXCEPT !.op = "delete", !.id = event_id]]
               /\ UNCHANGED <<events_db, nextId, resp, req>>

(* del events_db[event_id]: KeyError when the key is gone by now *)
DelItem(w) ==
    /\ pc[w] = "del"
    /\ LET event_id == local[w].id IN
       IF event_id \in keys(events_db)
       THEN /\ events_db' = delitem(events_db, event_id)
            /\ local' = [Forget(event_id) EXCEPT ![w] = NoLocal]
            /\ Finish(w, Response("delete", 204, event_id, <<>>))
       ELSE /\ Finish(w, Response("delete", ErrorStatus("KeyError"), event_id, <<>>))
            /\ local' = [local EXCEPT ![w] = NoLocal]
            /\ UNCHANGED events_db
    /\ UNCHANGED <<nextId, req>>

(* get_events: making the iterator *)
StartList(w) ==
    /\ pc[w] = "idle"
    /\ pc' = [pc EXCEPT ![w] = "list"]
    /\ local' = [local EXCEPT ![w] = NewIter([NoLocal EXCEPT !.op = "list"])]
    /\ UNCHANGED <<events_db, nextId, resp, req>>

(* One turn of the loop of get_events, and the sort and the response when  *)
(* the iterator is exhausted.                                              *)
ListLoop(w) ==
    /\ pc[w] = "list"
    /\ LET l == local[w] IN
       IF Len(events_db) # l.used
       THEN /\ Finish(w, Response("list", ErrorStatus("RuntimeError"), 0, <<>>))
            /\ local' = [local EXCEPT ![w] = NoLocal]
       ELSE IF Remaining(l) # <<>>
       THEN /\ local' = [local EXCEPT ![w] =
                [l EXCEPT !.passed = @ \cup {Head(Remaining(l)).id},
                          !.acc = Append(@, to_dict(EventOf(Head(Remaining(l)))))]]
            /\ UNCHANGED <<resp, pc>>
       ELSE /\ Finish(w, Response("list", 200, 0, SortByStartTime(l.acc)))
            /\ local' = [local EXCEPT ![w] = NoLocal]
    /\ UNCHANGED <<events_db, nextId, req>>

NextConc ==
    \E w \in Workers :
        \/ StartCreate(w) \/ StartUpdate(w) \/ BuildUpdate(w) \/ ScanStep(w) \/ CommitStep(w)
        \/ StartDelete(w) \/ DelItem(w) \/ StartList(w) \/ ListLoop(w)

SpecConc == Init /\ [][NextConc]_vars

(* ======================= properties ======================= *)

(* The interval of an event on the absolute timeline. *)
StartInstant(ev) == Instant(ev.start_time)
EndInstant(ev) == Instant(ev.end_time)
AbsValid(ev) == StartInstant(ev) < EndInstant(ev)
AbsOverlap(a, b) == StartInstant(a) < EndInstant(b) /\ EndInstant(a) > StartInstant(b)
Range(seq) == {seq[i] : i \in DOMAIN seq}
IsoInstant(iso) == iso.wall - iso.off

(* The observed request is a write whose body has the required fields and  *)
(* that was not answered NotFound; Candidate is the event it describes.    *)
ObservedWrite ==
    /\ req.op \in {"create", "update"}
    /\ HasFields(req.data)
    /\ resp.status # 404
OwnId == IF req.op = "update" THEN req.id ELSE IF resp.status = 201 THEN resp.id ELSE 0
Candidate == RequestEvent(req.data, OwnId)
(* The entries the observed write was checked against. *)
Others == SelectSeq(events_db, LAMBDA e : e.id # OwnId)

(* C1: after any sequence of requests handled one at a time, no two        *)
(* distinct stored events have overlapping intervals on the absolute       *)
(* timeline ([s1,e1) and [s2,e2) overlap iff s1 < e2 and e1 > s2).         *)
C1_NoOverlap ==
    \A i, j \in DOMAIN events_db :
        i # j => ~AbsOverlap(EventOf(events_db[i]), EventOf(events_db[j]))

(* C3: a create or update that is not answered with success (201 for       *)
(* create, 200 for update) leaves the store exactly as it was.             *)
C3_AllOrNothing ==
    [][(/\ resp'.op \in {"create", "update"}
        /\ ~(resp'.op = "create" /\ resp'.status = 201)
        /\ ~(resp'.op = "update" /\ resp'.status = 200))
       => events_db' = events_db]_vars

C3_Witness ==
    /\ req.op = "create" /\ resp.op = "create" /\ resp.status = 409
    /\ Len(events_db) = 2

(* C4: a valid create or update is answered 409 exactly when some stored   *)
(* event other than the excluded one overlaps the candidate on the         *)
(* absolute timeline, and the 409 carries exactly those events.            *)
C4_Expected ==
    {to_dict(EventOf(Others[i])) : i \in {k \in DOMAIN Others :
                                            AbsOverlap(Candidate, EventOf(Others[k]))}}
C4_ExactConflicts ==
    (ObservedWrite /\ Candidate.err = "") =>
        IF C4_Expected = {}
        THEN resp.status \in {200, 201}
        ELSE resp.status = 409 /\ Range(resp.body) = C4_Expected

(* C5: an event B that starts at the instant at which the only stored      *)
(* event A ends, in whatever zones the two are written, does not conflict  *)
(* with A: creating B is answered 201 and both are stored.                 *)
C5_BackToBack ==
    (/\ req.op = "create" /\ HasFields(req.data) /\ Candidate.err = ""
     /\ AbsValid(Candidate)
     /\ Len(Others) = 1
     /\ AbsValid(EventOf(Others[1]))
     /\ EndInstant(EventOf(Others[1])) = StartInstant(Candidate))
    => (resp.status = 201 /\ Len(events_db) = 2)

(* C6: an update of a stored event with a body that resolves to the fields *)
(* it already has is answered 200 and leaves the store as it was.          *)
C6_IdempotentExclusion ==
    [][(req'.op = "update" /\ req'.same) =>
          (resp'.status = 200 /\ events_db' = events_db)]_vars

C6_Witness ==
    /\ req.op = "update" /\ req.same /\ resp.status = 200
    /\ Len(events_db) = 2

(* C7: a create or update whose timestamp cannot be parsed, whose zone is  *)
(* not a known one, or whose start is not before its end on the absolute   *)
(* timeline, is answered 400.                                              *)
MalformedTimestamp(data) == ~fromisoformat(ReplaceZ(data.startTime)).ok
                            \/ ~fromisoformat(ReplaceZ(data.endTime)).ok
UnknownTimezone(data) == ~ZoneInfo(get(data, "timezone", "UTC")).ok
InvalidRange(data) ==
    /\ RequestEvent(data, 0).start_time.ok
    /\ RequestEvent(data, 0).end_time.ok
    /\ ~AbsValid(RequestEvent(data, 0))
C7_ValidationErrors ==
    (/\ ObservedWrite
     /\ MalformedTimestamp(req.data) \/ UnknownTimezone(req.data) \/ InvalidRange(req.data))
    => resp.status = 400

(* C8: the listing has every stored event exactly once, in ascending order *)
(* of start instant.                                                       *)
C8_ListingOrder ==
    resp.op = "list" =>
        /\ Len(resp.body) = Len(events_db)
        /\ {resp.body[i].id : i \in DOMAIN resp.body} = keys(events_db)
        /\ \A i, j \in DOMAIN resp.body :
              i < j => IsoInstant(resp.body[i].startTime) <= IsoInstant(resp.body[j].startTime)

(* C9: deleting a stored identifier is answered 204 and removes exactly    *)
(* that record, every other record and the order staying as they were;     *)
(* deleting an unknown identifier is answered 404 and changes nothing.     *)
C9_Delete ==
    [][resp'.op = "delete" =>
          IF resp'.id \in keys(events_db)
          THEN /\ resp'.status = 204
               /\ keys(events_db') = keys(events_db) \ {resp'.id}
               /\ \A k \in keys(events_db') : lookup(events_db', k) = lookup(events_db, k)
               /\ Len(events_db') = Len(events_db) - 1
          ELSE resp'.status = 404 /\ events_db' = events_db]_vars

C9_Witness == resp.op = "delete" /\ resp.status = 204 /\ Len(events_db) = 1

(* C10: a successful update of X keeps the identifiers of the store and    *)
(* their order, stores under X the body's title, raw start and raw end,    *)
(* and its description and timezone or their defaults, and leaves every    *)
(* other record as it was.                                                 *)
C10_WholeRecordReplace ==
    [][(req'.op = "update" /\ resp'.status = 200) =>
          /\ [i \in DOMAIN events_db' |-> events_db'[i].id]
                = [i \in DOMAIN events_db |-> events_db[i].id]
          /\ lookup(events_db', req'.id) =
                [title |-> req'.data.title,
                 description |-> IF "description" \in DOMAIN req'.data
                                 THEN req'.data.description ELSE "",
                 startTime |-> req'.data.startTime,
                 endTime |-> req'.data.endTime,
                 timezone |-> IF "timezone" \in DOMAIN req'.data
                              THEN req'.data.timezone ELSE "UTC"]
          /\ \A k \in keys(events_db) \ {req'.id} :
                lookup(events_db', k) = lookup(events_db, k)]_vars

C10_Witness ==
    /\ req.op = "update" /\ resp.status = 200 /\ ~req.same
    /\ Len(events_db) = 2
    /\ "description" \notin DOMAIN req.data

(* C2: under any interleaving of requests handled by concurrent threads,   *)
(* no two distinct stored events overlap: two writes never both pass the   *)
(* conflict check and both commit overlapping events.                      *)
C2_ConcurrentNoOverlap ==
    \A i, j \in DOMAIN events_db :
        i # j => ~AbsOverlap(EventOf(events_db[i]), EventOf(events_db[j]))

(* C11: every stored record, re-derived from its raw start, raw end and    *)
(* timezone, parses without error and has its start strictly before its    *)
(* end on the absolute timeline.                                           *)
C11_ValidRecords ==
    \A i \in DOMAIN events_db :
        /\ EventOf(events_db[i]).start_time.ok
        /\ EventOf(events_db[i]).end_time.ok
        /\ AbsValid(EventOf(events_db[i]))

(* C12: a create or update whose timestamps cannot be parsed, whose zone   *)
(* is not a known one, or whose start is not before its end on the         *)
(* absolute timeline, is rejected before the conflict check: it is never   *)
(* answered 409, whatever the store holds.                                 *)
C12_ValidationFirst ==
    (/\ ObservedWrite
     /\ MalformedTimestamp(req.data) \/ UnknownTimezone(req.data) \/ InvalidRange(req.data)
     /\ Others # <<>>)
    => resp.status # 409

(* C13: a successful create appends exactly one record, under the          *)
(* identifier it answers with, which was not a key of the store before,    *)
(* and leaves every record that was there as it was, in place; an update   *)
(* leaves the identifiers of the store and their order as they were.       *)
C13_FreshId ==
    [][/\ (resp'.op = "create" /\ resp'.status = 201) =>
             /\ resp'.id \notin keys(events_db)
             /\ Len(events_db') = Len(events_db) + 1
             /\ SubSeq(events_db', 1, Len(events_db)) = events_db
             /\ events_db'[Len(events_db')].id = resp'.id
             /\ resp'.body[1].id = resp'.id
       /\ resp'.op = "update" =>
             [i \in DOMAIN events_db' |-> events_db'[i].id]
                = [i \in DOMAIN events_db |-> events_db[i].id]]_vars

C13_Witness ==
    /\ req.op = "create" /\ resp.status = 201
    /\ Len(events_db) = 2
    /\ events_db[2].id = resp.id

(* C14: overlaps gives the same answer for a pair of events in either      *)
(* order: for any two stored events, and for the event of an accepted or   *)
(* conflicting write against every stored event.                           *)
C14_Symmetric ==
    /\ \A i, j \in DOMAIN events_db :
          i < j => overlaps(EventOf(events_db[i]), EventOf(events_db[j]))
                      = overlaps(EventOf(events_db[j]), EventOf(events_db[i]))
    /\ (ObservedWrite /\ Candidate.err = "") =>
          \A i \in DOMAIN events_db :
             overlaps(Candidate, EventOf(events_db[i]))
                = overlaps(EventOf(events_db[i]), Candidate)

C14_Witness ==
    /\ ObservedWrite /\ Candidate.err = "" /\ resp.status = 409
    /\ \E i \in DOMAIN events_db :
          /\ overlaps(Candidate, EventOf(events_db[i]))
          /\ Candidate.timezone # EventOf(events_db[i]).timezone

(* C15: under concurrent handling, a listing and the conflict scan of a    *)
(* create or update run to completion whatever writes go on beside them:   *)
(* none of the three is answered with a server error.                      *)
C15_ReadIsolation ==
    resp.op \in {"list", "create", "update"} => resp.status # 500

(* C16: an update never adds a key to the store: the keys after a step     *)
(* that answers an update are among the keys before it.  Identifiers are   *)
(* never handed out twice, so a key an update adds is one that a delete    *)
(* removed after the update found it.                                      *)
C16_UpdateAddsNoKey ==
    [][resp'.op = "update" => keys(events_db') \subseteq keys(events_db)]_vars

====
